---- MODULE Spec2Model ----
(***************************************************************************)
(* Red-sequence redshift fitting of a galaxy cluster (rsz_code/cluster.py). *)
(*                                                                         *)
(* Units.  Redshifts are integers in units of 0.01, magnitudes and colors  *)
(* are integers in units of 0.1 mag, positions are integers in units of    *)
(* 1/72 degree (50 arcsec), distances are integers in arcsec.  A reduced   *)
(* chi-squared is kept as an exact integer numerator over the common       *)
(* denominator ChiOne(to_fit), so "chi - best < 1.0" is                    *)
(* "numerator difference < ChiOne".                                        *)
(***************************************************************************)
EXTENDS Integers, Sequences, FiniteSets, TLC

VARIABLES
    sources,        \* Cluster.sources_list
    cfg,            \* the cfg / params dictionaries handed to fit_z
    z,              \* Cluster.z      (dict: color key -> redshift)
    flags,          \* Cluster.flags  (dict: color key -> int)
    pc,             \* the statement of fit_z (or of a helper) about to run
    iter,           \* position of fit_z's loop in the zipped cut schedule
    calls,          \* the helper calls fit_z has completed, in order
    error,          \* the exception that ended the run, "none" otherwise
    nearby,         \* _double_red_sequence: its argument
    chi_sq_values,  \* _chi_square_w_error: local list
    redshifts,      \* _chi_square_w_error: local list
    best_chi_index, \* _chi_square_w_error: local
    high_idx,       \* _chi_square_w_error: local
    low_idx,        \* _chi_square_w_error: local
    result          \* value returned by the helper under study

vars == <<sources, cfg, z, flags, pc, iter, calls, error, nearby,
          chi_sq_values, redshifts, best_chi_index, high_idx, low_idx, result>>

fitVars == <<sources, cfg, z, flags, iter, calls, error>>
scanVars == <<nearby, chi_sq_values, redshifts, best_chi_index, high_idx,
              low_idx, result>>

----------------------------------------------------------------------------
(* Bounds *)

MaxSources == 2
ZMax == 50
MaxChiLen == 7
MaxNearbyLen == 11
MaxCount == 1
MaxPopulation == 7
MaxCleanSources == 2
MaxLocSources == 3
MaxLocCalls == 2

----------------------------------------------------------------------------
(* Program constants *)

FineSpacing == 1
CoarseSpacing == 5
LocationRadius == 15
ColorShift == 3
FlagLocation == 1
FlagDoubleRS == 2
FlagNotClean == 4
FlagReviewer == 8

Color == "ch1-ch2"

----------------------------------------------------------------------------
(* Generic helpers *)

Max(S) == CHOOSE x \in S : \A y \in S : y <= x
Min(S) == CHOOSE x \in S : \A y \in S : x <= y

RECURSIVE sorted(_)
sorted(S) == IF S = {} THEN <<>> ELSE <<Min(S)>> \o sorted(S \ {Min(S)})

Range(s) == {s[i] : i \in 1..Len(s)}

\* np.sqrt on the perfect squares the catalogs below produce
Sqrt(n) == CHOOSE r \in 0..n : r * r = n

\* a value a catalog may lack (ra, dec, dist): None, or the number read
None == <<>>
Some(v) == <<v>>

----------------------------------------------------------------------------
(* data.AsymmetricData and the values a dict entry of Cluster.z can hold *)

AsymmetricData(value, upper_error, lower_error) ==
    [value |-> value, upper_error |-> upper_error, lower_error |-> lower_error]

\* Python attribute lookup: a dict has no attribute "value"
HasAttr(obj, attr) == attr \in DOMAIN obj

EmptyDict == [k \in {} |-> 0]

\* d[key] = value
SetItem(d, key, value) == [k \in DOMAIN d \cup {key} |->
                             IF k = key THEN value ELSE d[k]]

----------------------------------------------------------------------------
(* model.model_dict(spacing)[color]: redshift -> red sequence model *)

model_dict(spacing) == {r \in 0..ZMax : r % spacing = 0}

models == model_dict(FineSpacing)

\* sorted(self.models[cfg["color"]]) and sorted(model.model_dict(0.05)[...])
FineRedshifts == sorted(models)
CoarseRedshifts == sorted(model_dict(CoarseSpacing))

mag_point(redshift) == 20 + (redshift \div 25)

rs_color(redshift, mag) == redshift + 22 - mag

----------------------------------------------------------------------------
(* source.Source *)

Source(ra, dec, mag, color, err, dist) ==
    [ra |-> ra, dec |-> dec, dist |-> dist, mag |-> mag, color |-> color,
     error |-> err, near_center |-> FALSE, RS_member |-> FALSE]

rs_membership(source, blue_color, red_color, bright_mag, dim_mag) ==
    [source EXCEPT !.RS_member =
        /\ blue_color <= source.color /\ source.color <= red_color
        /\ bright_mag <= source.mag /\ source.mag <= dim_mag]

----------------------------------------------------------------------------
(* Cluster._location_cut, radius in tenths of an arcminute *)

SourceDist(source, ras, decs) ==
    IF source.dist = None
    THEN (Sqrt((2 * source.ra[1] - (Max(ras) + Min(ras))) ^ 2 +
               (2 * source.dec[1] - (Max(decs) + Min(decs))) ^ 2) * 3600)
             \div (2 * 72)
    ELSE source.dist[1]

\* max(ras) + min(ras) over positions that are None: TypeError
location_cut_raises(srcs) ==
    \E i \in 1..Len(srcs) : srcs[i].ra = None \/ srcs[i].dec = None

\* variant: a source at exactly the radius counts as near the center
location_cut_inclusive(srcs, radius) ==
    LET ras == {srcs[i].ra[1] : i \in 1..Len(srcs)}
        decs == {srcs[i].dec[1] : i \in 1..Len(srcs)}
    IN  [i \in 1..Len(srcs) |->
            LET d == SourceDist(srcs[i], ras, decs)
            IN  [srcs[i] EXCEPT !.dist = Some(d),
                                !.near_center = (d * 10 <= radius * 60)]]

location_cut(srcs, radius) ==
    LET ras == {srcs[i].ra[1] : i \in 1..Len(srcs)}
        decs == {srcs[i].dec[1] : i \in 1..Len(srcs)}
    IN  [i \in 1..Len(srcs) |->
            LET d == SourceDist(srcs[i], ras, decs)
            IN  [srcs[i] EXCEPT !.dist = Some(d),
                                !.near_center = (d * 10 < radius * 60)]]

----------------------------------------------------------------------------
(* Cluster._double_red_sequence *)

IsLocalMaximum(nb, idx) ==
    /\ nb[idx + 1] > nb[idx - 3 + 1] /\ nb[idx + 1] > nb[idx - 2 + 1]
    /\ nb[idx + 1] >= nb[idx - 1 + 1] /\ nb[idx + 1] >= nb[idx + 1 + 1]
    /\ nb[idx + 1] > nb[idx + 2 + 1] /\ nb[idx + 1] > nb[idx + 3 + 1]

\* variant: the index advances by 1 after a maximum as well
RECURSIVE NumLocalMaximaStepOne(_, _, _)
NumLocalMaximaStepOne(nb, idx, num_local_maxima) ==
    IF 3 <= idx /\ idx <= Len(nb) - 4
    THEN IF IsLocalMaximum(nb, idx)
         THEN NumLocalMaximaStepOne(nb, idx + 1, num_local_maxima + 1)
         ELSE NumLocalMaximaStepOne(nb, idx + 1, num_local_maxima)
    ELSE num_local_maxima

RECURSIVE NumLocalMaxima(_, _, _)
NumLocalMaxima(nb, idx, num_local_maxima) ==
    IF 3 <= idx /\ idx <= Len(nb) - 4
    THEN IF IsLocalMaximum(nb, idx)
         THEN NumLocalMaxima(nb, idx + 3, num_local_maxima + 1)
         ELSE NumLocalMaxima(nb, idx + 1, num_local_maxima)
    ELSE num_local_maxima

\* variant: 2 is added for every maximum counted
double_red_sequence_per_maximum(nb, flag) ==
    IF NumLocalMaxima(nb, 3, 0) >= 2
    THEN flag + FlagDoubleRS * NumLocalMaxima(nb, 3, 0) ELSE flag

double_red_sequence(nb, flag) ==
    IF NumLocalMaxima(nb, 3, 0) >= 2 THEN flag + FlagDoubleRS ELSE flag

----------------------------------------------------------------------------
(* Cluster._initial_z *)

IsNearby(source, redshift, c) ==
    /\ source.near_center
    /\ mag_point(redshift) - c.initial_mag[1] < source.mag
    /\ source.mag < mag_point(redshift) + c.initial_mag[2]
    /\ rs_color(redshift, source.mag) - c.initial_color[1] < source.color
    /\ source.color < rs_color(redshift, source.mag) + c.initial_color[2]

Nearbies(srcs, c) ==
    LET zs == CoarseRedshifts
    IN  [k \in 1..Len(zs) |->
            Cardinality({i \in 1..Len(srcs) : IsNearby(srcs[i], zs[k], c)})]

\* variant: the running maximum is replaced on ties as well
RECURSIVE BestNearbyIndexLast(_, _, _, _)
BestNearbyIndexLast(nb, k, max_nearby, best) ==
    IF k > Len(nb) THEN best
    ELSE IF nb[k] >= max_nearby
         THEN BestNearbyIndexLast(nb, k + 1, nb[k], k)
         ELSE BestNearbyIndexLast(nb, k + 1, max_nearby, best)

\* the loop's running maximum: the first index holding the largest count
RECURSIVE BestNearbyIndex(_, _, _, _)
BestNearbyIndex(nb, k, max_nearby, best) ==
    IF k > Len(nb) THEN best
    ELSE IF nb[k] > max_nearby
         THEN BestNearbyIndex(nb, k + 1, nb[k], k)
         ELSE BestNearbyIndex(nb, k + 1, max_nearby, best)

\* variant: the two errors change places
initial_z_errors_swapped(srcs, c) ==
    LET zs == CoarseRedshifts
        best_z == zs[BestNearbyIndex(Nearbies(srcs, c), 1, -999, 0)]
    IN  AsymmetricData(best_z, best_z - zs[1], zs[Len(zs)] - best_z)

initial_z(srcs, c) ==
    LET zs == CoarseRedshifts
        best_z == zs[BestNearbyIndex(Nearbies(srcs, c), 1, -999, 0)]
    IN  AsymmetricData(best_z, zs[Len(zs)] - best_z, best_z - zs[1])

----------------------------------------------------------------------------
(* Cluster._set_rs_membership *)

\* variant: only the sources inside the location cut are re-marked
set_rs_membership_near_only(srcs, redshift, bluer, redder, brighter, dimmer) ==
    LET char_mag == mag_point(redshift)
        dim_mag == char_mag + dimmer
        bright_mag == char_mag - brighter
    IN  [i \in 1..Len(srcs) |->
            LET char_color == rs_color(redshift, srcs[i].mag)
            IN  IF srcs[i].near_center
                THEN rs_membership(srcs[i], char_color - bluer,
                                   char_color + redder, bright_mag, dim_mag)
                ELSE srcs[i]]

set_rs_membership(srcs, redshift, bluer, redder, brighter, dimmer) ==
    LET char_mag == mag_point(redshift)
        dim_mag == char_mag + dimmer
        bright_mag == char_mag - brighter
    IN  [i \in 1..Len(srcs) |->
            LET char_color == rs_color(redshift, srcs[i].mag)
            IN  rs_membership(srcs[i], char_color - bluer, char_color + redder,
                              bright_mag, dim_mag)]

----------------------------------------------------------------------------
(* Cluster._chi_square_w_error *)

to_fit(srcs) == {i \in 1..Len(srcs) : srcs[i].RS_member /\ srcs[i].near_center}

RECURSIVE Product(_)
Product(S) == IF S = {} THEN 1
              ELSE LET x == CHOOSE y \in S : TRUE IN x * Product(S \ {x})

\* a common multiple of the color errors of the fitted sources
ErrUnit(srcs, fit) == Product({srcs[i].error : i \in fit})

\* the integer that stands for a reduced chi-squared of 1.0
ChiOne(srcs, fit) == Cardinality(fit) * ErrUnit(srcs, fit) ^ 2

RECURSIVE ChiSum(_, _, _, _)
ChiSum(srcs, fit, unit, redshift) ==
    IF fit = {} THEN 0
    ELSE LET i == CHOOSE j \in fit : TRUE
             model_color == rs_color(redshift, srcs[i].mag)
         IN  ((model_color - srcs[i].color) * (unit \div srcs[i].error)) ^ 2
             + ChiSum(srcs, fit \ {i}, unit, redshift)

ChiSqValues(srcs, fit, zs) ==
    LET unit == ErrUnit(srcs, fit)
    IN  [k \in 1..Len(zs) |-> ChiSum(srcs, fit, unit, zs[k])]

\* min(chi_sq_values), then chi_sq_values.index(best_chi); indices from 0
BestChi(chi) == Min(Range(chi))

\* variant: the last index holding the minimum
BestChiIndexLast(chi) ==
    LET best_chi == BestChi(chi)
    IN  Max({k \in 1..Len(chi) : chi[k] = best_chi}) - 1

BestChiIndex(chi) ==
    LET best_chi == BestChi(chi)
    IN  Min({k \in 1..Len(chi) : chi[k] = best_chi}) - 1

\* variant: the loop bound without its -1
ScanHighContinuesPastEnd(chi, best_chi, idx, one) ==
    idx < Len(chi) /\ chi[idx + 1] - best_chi < one

ScanHighContinues(chi, best_chi, idx, one) ==
    idx < Len(chi) - 1 /\ chi[idx + 1] - best_chi < one

\* variant: the scan goes on while the rise is at most 1.0
ScanLowContinuesInclusive(chi, best_chi, idx, one) ==
    idx > 0 /\ chi[idx + 1] - best_chi <= one

ScanLowContinues(chi, best_chi, idx, one) ==
    idx > 0 /\ chi[idx + 1] - best_chi < one

RECURSIVE ScanHigh(_, _, _, _)
ScanHigh(chi, best_chi, idx, one) ==
    IF ScanHighContinues(chi, best_chi, idx, one)
    THEN ScanHigh(chi, best_chi, idx + 1, one) ELSE idx

RECURSIVE ScanLow(_, _, _, _)
ScanLow(chi, best_chi, idx, one) ==
    IF ScanLowContinues(chi, best_chi, idx, one)
    THEN ScanLow(chi, best_chi, idx - 1, one) ELSE idx

ChiReturn(zs, best, high, low) ==
    AsymmetricData(zs[best + 1], zs[high + 1] - zs[best + 1],
                   zs[best + 1] - zs[low + 1])

\* the locals of the call once both scans have ended
ChiLocals(srcs) ==
    LET fit == to_fit(srcs)
        chi == ChiSqValues(srcs, fit, FineRedshifts)
        one == ChiOne(srcs, fit)
        best_chi == BestChi(chi)
        best == BestChiIndex(chi)
    IN  [chi_sq_values |-> chi, redshifts |-> FineRedshifts,
         best_chi_index |-> best,
         high_idx |-> ScanHigh(chi, best_chi, best, one),
         low_idx |-> ScanLow(chi, best_chi, best, one)]

chi_square_w_error(srcs, zdict) ==
    IF Cardinality(to_fit(srcs)) = 0
    THEN zdict
    ELSE LET l == ChiLocals(srcs)
         IN  ChiReturn(l.redshifts, l.best_chi_index, l.high_idx, l.low_idx)

----------------------------------------------------------------------------
(* Cluster._count_galaxies, Cluster._clean_rs_check *)

\* variant: members are counted wherever they are
count_galaxies_all(srcs) ==
    Cardinality({i \in 1..Len(srcs) : srcs[i].RS_member})

count_galaxies(srcs) ==
    Cardinality({i \in 1..Len(srcs) : srcs[i].near_center /\ srcs[i].RS_member})

Last(s) == s[Len(s)]

CleanBest(srcs, redshift, c) ==
    set_rs_membership(srcs, redshift, Last(c.bluer_color_cut),
                      Last(c.redder_color_cut),
                      c.brighter_mag_cut, c.dimmer_mag_cut)

CleanRed(srcs, redshift, c) ==
    set_rs_membership(srcs, redshift, Last(c.bluer_color_cut) - ColorShift,
                      Last(c.redder_color_cut) + ColorShift,
                      c.brighter_mag_cut, c.dimmer_mag_cut)

CleanBlue(srcs, redshift, c) ==
    set_rs_membership(srcs, redshift, Last(c.bluer_color_cut) + ColorShift,
                      Last(c.redder_color_cut) - ColorShift,
                      c.brighter_mag_cut, c.dimmer_mag_cut)

\* variant: the blue-shifted pass runs before the red-shifted one
clean_rs_check_red_last(srcs, redshift, c, flag) ==
    LET best == CleanBest(srcs, redshift, c)
        best_rs == count_galaxies(best)
        blue == CleanBlue(best, redshift, c)
        blue_rs == count_galaxies(blue)
        red == CleanRed(blue, redshift, c)
        red_rs == count_galaxies(red)
    IN  [sources |-> red,
         flag |-> IF (red_rs + blue_rs) * 2 >= best_rs
                  THEN flag + FlagNotClean ELSE flag]

\* variant: an empty accepted red sequence is not compared
clean_rs_check_nonempty(srcs, redshift, c, flag) ==
    LET best == CleanBest(srcs, redshift, c)
        best_rs == count_galaxies(best)
        red == CleanRed(best, redshift, c)
        red_rs == count_galaxies(red)
        blue == CleanBlue(red, redshift, c)
        blue_rs == count_galaxies(blue)
    IN  [sources |-> blue,
         flag |-> IF best_rs > 0 /\ (red_rs + blue_rs) * 2 >= best_rs
                  THEN flag + FlagNotClean ELSE flag]

clean_rs_check(srcs, redshift, c, flag) ==
    LET best == CleanBest(srcs, redshift, c)
        best_rs == count_galaxies(best)
        red == CleanRed(best, redshift, c)
        red_rs == count_galaxies(red)
        blue == CleanBlue(red, redshift, c)
        blue_rs == count_galaxies(blue)
    IN  [sources |-> blue,
         flag |-> IF (red_rs + blue_rs) * 2 >= best_rs
                  THEN flag + FlagNotClean ELSE flag]

----------------------------------------------------------------------------
(* Cluster._location_check *)

\* variant: the flag is assigned, not incremented
location_check_assign(srcs, flag) ==
    LET idx == 1..Len(srcs)
        total_near_center == Cardinality({i \in idx : srcs[i].near_center})
        rs_near_center ==
            Cardinality({i \in idx : srcs[i].near_center /\ srcs[i].RS_member})
        total_not_near_center ==
            Cardinality({i \in idx : ~srcs[i].near_center})
        rs_not_near_center ==
            Cardinality({i \in idx : ~srcs[i].near_center /\ srcs[i].RS_member})
    IN  IF total_near_center = 0 \/ total_not_near_center = 0
        THEN FlagLocation
        ELSE IF rs_near_center * total_not_near_center * 100
                    <= rs_not_near_center * total_near_center * 175
             THEN FlagLocation
             ELSE flag

location_check(srcs, flag) ==
    LET idx == 1..Len(srcs)
        total_near_center == Cardinality({i \in idx : srcs[i].near_center})
        rs_near_center ==
            Cardinality({i \in idx : srcs[i].near_center /\ srcs[i].RS_member})
        total_not_near_center ==
            Cardinality({i \in idx : ~srcs[i].near_center})
        rs_not_near_center ==
            Cardinality({i \in idx : ~srcs[i].near_center /\ srcs[i].RS_member})
    IN  IF total_near_center = 0 \/ total_not_near_center = 0
        THEN flag + FlagLocation        \* except ZeroDivisionError
        ELSE IF rs_near_center * total_not_near_center * 100
                    <= rs_not_near_center * total_near_center * 175
             THEN flag + FlagLocation
             ELSE flag

----------------------------------------------------------------------------
(* Catalogs and configurations the runs start from *)

\* params["ra"], params["dec"], params["dist"]: a column number, or "-99"
\* for a column the catalog does not have.  read_catalog refuses a catalog
\* with neither ra/dec nor dist.
CatalogColumns ==
    {[ra |-> "1", dec |-> "2", dist |-> "-99"],
     [ra |-> "1", dec |-> "2", dist |-> "3"],
     [ra |-> "-99", dec |-> "-99", dist |-> "3"]}

\* get_ra_dec and get_dist: what one catalog line gives for these columns
Positions(cols) ==
    IF cols.dist = "-99"
    THEN {[ra |-> Some(0), dec |-> Some(0), dist |-> None],
          [ra |-> Some(4), dec |-> Some(0), dist |-> None]}
    ELSE IF cols.ra = "-99" \/ cols.dec = "-99"
    THEN {[ra |-> None, dec |-> None, dist |-> Some(30)],
          [ra |-> None, dec |-> None, dist |-> Some(100)]}
    ELSE {[ra |-> Some(4), dec |-> Some(0), dist |-> Some(30)],
          [ra |-> Some(4), dec |-> Some(0), dist |-> Some(100)],
          [ra |-> Some(0), dec |-> Some(0), dist |-> Some(30)]}

\* color and color error of a source
Photometry == {[color |-> 17, error |-> 1], [color |-> 17, error |-> 2],
               [color |-> 20, error |-> 1], [color |-> 37, error |-> 1]}

SourceSet(cols) ==
    {Source(p.ra, p.dec, mag, ph.color, ph.error, p.dist) :
        p \in Positions(cols), mag \in {20, 22}, ph \in Photometry}

SourceKey(s) ==
    s.color + 100 * s.mag + 10000 * s.error
        + 100000 * (IF s.ra = None THEN 9 ELSE s.ra[1])
        + 1000000 * (IF s.dist = None THEN 0 ELSE s.dist[1])

\* the order of sources_list is irrelevant to every loop of the class, so
\* one list per multiset of sources is enough
Catalogs(cols) ==
    {c \in UNION {[1..n -> SourceSet(cols)] : n \in 1..MaxSources} :
        \A i \in 1..(Len(c) - 1) : SourceKey(c[i]) <= SourceKey(c[i + 1])}

Configs ==
    {[color |-> Color,
      bluer_color_cut |-> sched[1], redder_color_cut |-> sched[2],
      brighter_mag_cut |-> 2, dimmer_mag_cut |-> 1,
      initial_mag |-> <<3, 3>>, initial_color |-> <<2, 2>>,
      final_rs_color |-> <<3, 3>>, final_rs_mag |-> frm,
      ra |-> cols.ra, dec |-> cols.dec, dist |-> cols.dist] :
        sched \in {<< <<2>>, <<2>> >>, << <<4, 2>>, <<5, 3>> >>},
        frm \in {<<2, 0>>, <<1, 1>>},
        cols \in CatalogColumns}

\* zip(cfg["bluer_color_cut"], cfg["redder_color_cut"])
NumCuts(c) == Min({Len(c.bluer_color_cut), Len(c.redder_color_cut)})

----------------------------------------------------------------------------
(* Cluster.fit_z, one action per statement *)

Call(fn, arg) == [fn |-> fn, arg |-> arg]

\* variant: the final classification runs before the clean check
fit_z_next_final_first(stmt, i, n) ==
    CASE stmt = "location_cut" -> "flag_reset"
      [] stmt = "flag_reset" -> "initial_z"
      [] stmt = "initial_z" ->
            IF n >= 1 THEN "set_rs_membership" ELSE "final_rs_membership"
      [] stmt = "set_rs_membership" -> "chi_square"
      [] stmt = "chi_square" ->
            IF i < n THEN "set_rs_membership" ELSE "final_rs_membership"
      [] stmt = "final_rs_membership" -> "clean_rs_check"
      [] stmt = "clean_rs_check" -> "location_check"
      [] stmt = "location_check" -> "interactive"
      [] stmt = "interactive" -> "done"

\* the statement that follows stmt; i is the cut pair just used, n their number
fit_z_next(stmt, i, n) ==
    CASE stmt = "location_cut" -> "flag_reset"
      [] stmt = "flag_reset" -> "initial_z"
      [] stmt = "initial_z" ->
            IF n >= 1 THEN "set_rs_membership" ELSE "clean_rs_check"
      [] stmt = "set_rs_membership" -> "chi_square"
      [] stmt = "chi_square" ->
            IF i < n THEN "set_rs_membership" ELSE "clean_rs_check"
      [] stmt = "clean_rs_check" -> "final_rs_membership"
      [] stmt = "final_rs_membership" -> "location_check"
      [] stmt = "location_check" -> "interactive"
      [] stmt = "interactive" -> "done"

\* brighter and dimmer widths of the final classification
final_mag_cuts(c) == <<c.final_rs_mag[1], c.final_rs_mag[1]>>

FitInit ==
    /\ cfg \in Configs
    /\ sources \in Catalogs(cfg)
    /\ z = EmptyDict
    /\ flags = EmptyDict
    /\ pc = "location_cut"
    /\ iter = 0
    /\ calls = <<>>
    /\ error = "none"
    /\ nearby = <<>>
    /\ chi_sq_values = <<>>
    /\ redshifts = <<>>
    /\ best_chi_index = 0
    /\ high_idx = 0
    /\ low_idx = 0
    /\ result = EmptyDict

FitZ_LocationCut ==
    /\ pc = "location_cut"
    /\ ~location_cut_raises(sources)
    /\ sources' = location_cut(sources, LocationRadius)
    /\ calls' = Append(calls, Call("_location_cut", LocationRadius))
    /\ pc' = fit_z_next(pc, iter, NumCuts(cfg))
    /\ UNCHANGED <<cfg, z, flags, iter, error>>
    /\ UNCHANGED scanVars

\* the TypeError of _location_cut leaves fit_z
FitZ_TypeError ==
    /\ pc = "location_cut"
    /\ location_cut_raises(sources)
    /\ error' = "TypeError"
    /\ pc' = "raised"
    /\ UNCHANGED <<sources, cfg, z, flags, iter, calls>>
    /\ UNCHANGED scanVars

FitZ_FlagReset ==
    /\ pc = "flag_reset"
    /\ flags' = SetItem(flags, cfg.color, 0)
    /\ calls' = Append(calls, Call("flag_reset", 0))
    /\ pc' = fit_z_next(pc, iter, NumCuts(cfg))
    /\ UNCHANGED <<sources, cfg, z, iter, error>>
    /\ UNCHANGED scanVars

FitZ_InitialZ ==
    /\ pc = "initial_z"
    /\ nearby' = Nearbies(sources, cfg)
    /\ flags' = SetItem(flags, cfg.color,
                        double_red_sequence(nearby', flags[cfg.color]))
    /\ z' = SetItem(z, cfg.color, initial_z(sources, cfg))
    /\ result' = z'[cfg.color]
    /\ calls' = Append(calls, Call("_initial_z", 0))
    /\ pc' = fit_z_next(pc, iter, NumCuts(cfg))
    /\ UNCHANGED <<sources, cfg, iter, error>>
    /\ UNCHANGED <<chi_sq_values, redshifts, best_chi_index, high_idx, low_idx>>

\* self.z[cfg["color"]].value on an object without that attribute
FitZ_AttributeError ==
    /\ pc \in {"set_rs_membership", "clean_rs_check", "final_rs_membership"}
    /\ ~HasAttr(z[cfg.color], "value")
    /\ error' = "AttributeError"
    /\ pc' = "raised"
    /\ UNCHANGED <<sources, cfg, z, flags, iter, calls>>
    /\ UNCHANGED scanVars

FitZ_SetRsMembership ==
    /\ pc = "set_rs_membership"
    /\ HasAttr(z[cfg.color], "value")
    /\ iter' = iter + 1
    /\ sources' = set_rs_membership(sources, z[cfg.color].value,
                                    cfg.bluer_color_cut[iter'],
                                    cfg.redder_color_cut[iter'],
                                    cfg.brighter_mag_cut, cfg.dimmer_mag_cut)
    /\ calls' = Append(calls, Call("_set_rs_membership", iter'))
    /\ pc' = fit_z_next(pc, iter', NumCuts(cfg))
    /\ UNCHANGED <<cfg, z, flags, error>>
    /\ UNCHANGED scanVars

FitZ_ChiSquare ==
    /\ pc = "chi_square"
    /\ result' = chi_square_w_error(sources, z)
    /\ z' = SetItem(z, cfg.color, result')
    /\ calls' = Append(calls, Call("_chi_square_w_error", iter))
    /\ pc' = fit_z_next(pc, iter, NumCuts(cfg))
    /\ UNCHANGED <<sources, cfg, flags, iter, error>>
    /\ UNCHANGED <<nearby, chi_sq_values, redshifts, best_chi_index, high_idx,
                   low_idx>>

FitZ_CleanRsCheck ==
    /\ pc = "clean_rs_check"
    /\ HasAttr(z[cfg.color], "value")
    /\ LET r == clean_rs_check(sources, z[cfg.color].value, cfg,
                               flags[cfg.color])
       IN  /\ sources' = r.sources
           /\ flags' = SetItem(flags, cfg.color, r.flag)
    /\ calls' = Append(calls, Call("_clean_rs_check", 0))
    /\ pc' = fit_z_next(pc, iter, NumCuts(cfg))
    /\ UNCHANGED <<cfg, z, iter, error>>
    /\ UNCHANGED scanVars

FitZ_FinalRsMembership ==
    /\ pc = "final_rs_membership"
    /\ HasAttr(z[cfg.color], "value")
    /\ sources' = set_rs_membership(sources, z[cfg.color].value,
                                    cfg.final_rs_color[1], cfg.final_rs_color[2],
                                    final_mag_cuts(cfg)[1], final_mag_cuts(cfg)[2])
    /\ calls' = Append(calls, Call("_set_rs_membership", 0))
    /\ pc' = fit_z_next(pc, iter, NumCuts(cfg))
    /\ UNCHANGED <<cfg, z, flags, iter, error>>
    /\ UNCHANGED scanVars

FitZ_LocationCheck ==
    /\ pc = "location_check"
    /\ flags' = SetItem(flags, cfg.color,
                        location_check(sources, flags[cfg.color]))
    /\ calls' = Append(calls, Call("_location_check", 0))
    /\ pc' = fit_z_next(pc, iter, NumCuts(cfg))
    /\ UNCHANGED <<sources, cfg, z, iter, error>>
    /\ UNCHANGED scanVars

\* if params["interactive"] == "1": flags = raw_input(...); "f" adds 8
interactive_flag(flag, interactive, answer) ==
    IF interactive = "1" /\ answer = "f" THEN flag + FlagReviewer ELSE flag

\* params["interactive"] is read nowhere else, so it is drawn here
FitZ_Interactive ==
    /\ pc = "interactive"
    /\ \E interactive \in {"0", "1"}, answer \in {"f", "i", ""} :
          flags' = SetItem(flags, cfg.color,
                           interactive_flag(flags[cfg.color], interactive,
                                            answer))
    /\ pc' = fit_z_next(pc, iter, NumCuts(cfg))
    /\ UNCHANGED <<sources, cfg, z, iter, calls, error>>
    /\ UNCHANGED scanVars

Next ==
    \/ FitZ_LocationCut
    \/ FitZ_TypeError
    \/ FitZ_FlagReset
    \/ FitZ_InitialZ
    \/ FitZ_AttributeError
    \/ FitZ_SetRsMembership
    \/ FitZ_ChiSquare
    \/ FitZ_CleanRsCheck
    \/ FitZ_FinalRsMembership
    \/ FitZ_LocationCheck
    \/ FitZ_Interactive

Init == FitInit

Spec == Init /\ [][Next]_vars

----------------------------------------------------------------------------
(* Cluster._double_red_sequence applied to an arbitrary list of counts *)

NearbyLists == UNION {[1..n -> 0..MaxCount] : n \in 0..MaxNearbyLen}

DrsInit ==
    /\ nearby \in NearbyLists
    /\ flags = SetItem(EmptyDict, Color, 0)
    /\ pc = "double_red_sequence"
    /\ sources = <<>>
    /\ cfg = EmptyDict
    /\ z = EmptyDict
    /\ iter = 0
    /\ calls = <<>>
    /\ error = "none"
    /\ chi_sq_values = <<>>
    /\ redshifts = <<>>
    /\ best_chi_index = 0
    /\ high_idx = 0
    /\ low_idx = 0
    /\ result = EmptyDict

Drs_Call ==
    /\ pc = "double_red_sequence"
    /\ flags' = SetItem(flags, Color, double_red_sequence(nearby, flags[Color]))
    /\ pc' = "double_red_sequence_returned"
    /\ UNCHANGED <<sources, cfg, z, iter, calls, error>>
    /\ UNCHANGED scanVars

DrsNext == Drs_Call

SpecDrs == DrsInit /\ [][DrsNext]_vars

----------------------------------------------------------------------------
(* Cluster._chi_square_w_error from line 597 on, one loop pass per action,   *)
(* applied to an arbitrary list of reduced chi-squared values                *)

ChiValues == {0, 1, 3, 5}

ChiLists == UNION {[1..n -> ChiValues] : n \in 1..MaxChiLen}

ChiInit ==
    /\ chi_sq_values \in ChiLists
    /\ redshifts = SubSeq(FineRedshifts, 1, Len(chi_sq_values))
    /\ pc = "best_chi"
    /\ best_chi_index = 0
    /\ high_idx = 0
    /\ low_idx = 0
    /\ result = EmptyDict
    /\ nearby = <<>>
    /\ sources = <<>>
    /\ cfg = EmptyDict
    /\ z = EmptyDict
    /\ flags = EmptyDict
    /\ iter = 0
    /\ calls = <<>>
    /\ error = "none"

Chi_Best ==
    /\ pc = "best_chi"
    /\ best_chi_index' = BestChiIndex(chi_sq_values)
    /\ high_idx' = best_chi_index'
    /\ pc' = "scan_high"
    /\ UNCHANGED <<nearby, chi_sq_values, redshifts, low_idx, result>>
    /\ UNCHANGED fitVars

Chi_ScanHighStep ==
    /\ pc = "scan_high"
    /\ ScanHighContinues(chi_sq_values, BestChi(chi_sq_values), high_idx, 1)
    /\ high_idx' = high_idx + 1
    /\ UNCHANGED <<pc, nearby, chi_sq_values, redshifts, best_chi_index,
                   low_idx, result>>
    /\ UNCHANGED fitVars

Chi_ScanHighEnd ==
    /\ pc = "scan_high"
    /\ ~ScanHighContinues(chi_sq_values, BestChi(chi_sq_values), high_idx, 1)
    /\ low_idx' = best_chi_index
    /\ pc' = "scan_low"
    /\ UNCHANGED <<nearby, chi_sq_values, redshifts, best_chi_index,
                   high_idx, result>>
    /\ UNCHANGED fitVars

Chi_ScanLowStep ==
    /\ pc = "scan_low"
    /\ ScanLowContinues(chi_sq_values, BestChi(chi_sq_values), low_idx, 1)
    /\ low_idx' = low_idx - 1
    /\ UNCHANGED <<pc, nearby, chi_sq_values, redshifts, best_chi_index,
                   high_idx, result>>
    /\ UNCHANGED fitVars

Chi_ScanLowEnd ==
    /\ pc = "scan_low"
    /\ ~ScanLowContinues(chi_sq_values, BestChi(chi_sq_values), low_idx, 1)
    /\ pc' = "chi_return"
    /\ UNCHANGED scanVars
    /\ UNCHANGED fitVars

Chi_Return ==
    /\ pc = "chi_return"
    /\ result' = ChiReturn(redshifts, best_chi_index, high_idx, low_idx)
    /\ pc' = "chi_returned"
    /\ UNCHANGED <<nearby, chi_sq_values, redshifts, best_chi_index,
                   high_idx, low_idx>>
    /\ UNCHANGED fitVars

ChiNext ==
    \/ Chi_Best
    \/ Chi_ScanHighStep
    \/ Chi_ScanHighEnd
    \/ Chi_ScanLowStep
    \/ Chi_ScanLowEnd
    \/ Chi_Return

SpecChi == ChiInit /\ [][ChiNext]_vars

----------------------------------------------------------------------------
(* Cluster._location_check applied to arbitrary populations of sources *)

Rep(x, n) == [i \in 1..n |-> x]

\* a source as _location_cut and _set_rs_membership may have left it
Marked(near_center, RS_member) ==
    [Source(Some(0), Some(0), 20, 17, 1, Some(0))
        EXCEPT !.near_center = near_center, !.RS_member = RS_member]

Populations ==
    {Rep(Marked(TRUE, TRUE), a) \o Rep(Marked(TRUE, FALSE), b)
        \o Rep(Marked(FALSE, TRUE), c) \o Rep(Marked(FALSE, FALSE), d) :
        a \in 0..MaxPopulation, b \in 0..MaxPopulation,
        c \in 0..MaxPopulation, d \in 0..MaxPopulation}

LocCheckInit ==
    /\ sources \in {p \in Populations :
                        /\ Cardinality({i \in 1..Len(p) : p[i].near_center})
                              <= MaxPopulation
                        /\ Cardinality({i \in 1..Len(p) : ~p[i].near_center})
                              <= MaxPopulation}
    /\ flags \in {SetItem(EmptyDict, Color, f) : f \in {0, 6}}
    /\ pc = "location_check"
    /\ cfg = SetItem(EmptyDict, "color", Color)
    /\ z = EmptyDict
    /\ iter = 0
    /\ calls = <<>>
    /\ error = "none"
    /\ nearby = <<>>
    /\ chi_sq_values = <<>>
    /\ redshifts = <<>>
    /\ best_chi_index = 0
    /\ high_idx = 0
    /\ low_idx = 0
    /\ result = EmptyDict

LocCheck_Call ==
    /\ pc = "location_check"
    /\ flags' = SetItem(flags, cfg.color,
                        location_check(sources, flags[cfg.color]))
    /\ pc' = "location_check_returned"
    /\ UNCHANGED <<sources, cfg, z, iter, calls, error>>
    /\ UNCHANGED scanVars

LocCheckNext == LocCheck_Call

SpecLocCheck == LocCheckInit /\ [][LocCheckNext]_vars

----------------------------------------------------------------------------
(* Cluster._clean_rs_check called on a cluster in an arbitrary fitted state *)

CleanSourceSet ==
    {[Marked(near_center, RS_member) EXCEPT !.mag = mag, !.color = color] :
        near_center \in BOOLEAN, RS_member \in BOOLEAN,
        mag \in {20, 22}, color \in {14, 17, 19, 20}}

CleanKey(s) ==
    s.color + 100 * s.mag + (IF s.near_center THEN 10000 ELSE 0)
        + (IF s.RS_member THEN 20000 ELSE 0)

CleanCatalogs ==
    {c \in UNION {[1..n -> CleanSourceSet] : n \in 1..MaxCleanSources} :
        \A i \in 1..(Len(c) - 1) : CleanKey(c[i]) <= CleanKey(c[i + 1])}

\* redshifts the fit may have stored
CleanRedshifts == {15, 16, 25}

CleanInit ==
    /\ sources \in CleanCatalogs
    /\ cfg \in {c \in Configs : c.dist = "-99" /\ c.final_rs_mag = <<2, 0>>}
    /\ z \in {SetItem(EmptyDict, Color, AsymmetricData(v, 1, 1)) :
                 v \in CleanRedshifts}
    /\ flags \in {SetItem(EmptyDict, Color, f) : f \in {0, 3}}
    /\ pc = "clean_rs_check"
    /\ iter = 0
    /\ calls = <<>>
    /\ error = "none"
    /\ nearby = <<>>
    /\ chi_sq_values = <<>>
    /\ redshifts = <<>>
    /\ best_chi_index = 0
    /\ high_idx = 0
    /\ low_idx = 0
    /\ result = EmptyDict

CleanNext == FitZ_CleanRsCheck

SpecClean == CleanInit /\ [][CleanNext]_vars

----------------------------------------------------------------------------
(* Cluster._location_cut called with any radius on catalogs without distance *)

\* positions on a line, and the corners of a box
LocLine == {<<ra, 0>> : ra \in {0, 3, 6}}
LocBox == {<<ra, dec>> : ra \in {0, 6}, dec \in {0, 8}}

\* 1.5, 2.5 and 4 arcminutes
LocRadii == {15, 25, 40}

LocCatalogs ==
    UNION {[1..n -> {Source(Some(p[1]), Some(p[2]), 20, 17, 1, None) :
                        p \in P}] :
              n \in 1..MaxLocSources, P \in {LocLine, LocBox}}

LocInit ==
    /\ sources \in LocCatalogs
    /\ cfg = SetItem(EmptyDict, "color", Color)
    /\ pc = "location_cut"
    /\ calls = <<>>
    /\ z = EmptyDict
    /\ flags = EmptyDict
    /\ iter = 0
    /\ error = "none"
    /\ nearby = <<>>
    /\ chi_sq_values = <<>>
    /\ redshifts = <<>>
    /\ best_chi_index = 0
    /\ high_idx = 0
    /\ low_idx = 0
    /\ result = EmptyDict

Loc_Call ==
    /\ pc = "location_cut"
    /\ Len(calls) < MaxLocCalls
    /\ ~location_cut_raises(sources)
    /\ \E radius \in LocRadii :
          /\ sources' = location_cut(sources, radius)
          /\ calls' = Append(calls, Call("_location_cut", radius))
    /\ UNCHANGED <<cfg, z, flags, pc, iter, error>>
    /\ UNCHANGED scanVars

LocNext == Loc_Call

SpecLoc == LocInit /\ [][LocNext]_vars

----------------------------------------------------------------------------
(* Properties *)

\* the statement of fit_z that has just completed
JustRan(fn) == calls # <<>> /\ calls[Len(calls)].fn = fn /\ pc # "raised"

\* C1: when no source is both near_center and a red-sequence member,
\* _chi_square_w_error returns the redshift stored for the color key, the
\* same AsymmetricData as before the call.
C1_EmptyFitReturnsStoredRedshift ==
    (pc = "chi_square" /\ to_fit(sources) = {})
        => chi_square_w_error(sources, z) = z[cfg.color]

\* C2: a refinement iteration of fit_z whose fitting subset is empty leaves
\* the stored redshift as it was, and no statement of fit_z from the
\* refinement loop on raises.
C2_EmptyFitIsNonFatal ==
    [][/\ (pc = "chi_square" /\ to_fit(sources) = {})
            => z'[cfg.color] = z[cfg.color]
       /\ pc # "location_cut" => pc' # "raised"]_vars

ExpectedCalls(c) ==
    <<Call("_location_cut", 15), Call("flag_reset", 0), Call("_initial_z", 0)>>
    \o [k \in 1..(2 * NumCuts(c)) |->
            IF k % 2 = 1 THEN Call("_set_rs_membership", (k + 1) \div 2)
                         ELSE Call("_chi_square_w_error", k \div 2)]
    \o <<Call("_clean_rs_check", 0), Call("_set_rs_membership", 0),
         Call("_location_check", 0)>>

IsPrefix(s, t) == Len(s) <= Len(t) /\ s = SubSeq(t, 1, Len(s))

\* C3: the stages fit_z has completed are at every moment an initial part of:
\* location cut (radius 1.5), flag reset, initial estimate, then per cut pair
\* a classification and a refinement, clean check, final classification,
\* location check; a run that returns has completed all of them.
C3_StagesInOrder ==
    /\ IsPrefix(calls, ExpectedCalls(cfg))
    /\ pc \in {"interactive", "done"} => calls = ExpectedCalls(cfg)

C3_Witness ==
    pc = "done" /\ NumCuts(cfg) = 2 /\ Len(calls) = 10

Bit(v, b) == (v \div b) % 2 = 1

\* C4: the flag of the color key is set to 0 only by the reset before the
\* initial estimate; afterwards no step lowers it or clears a bit it holds.
C4_FlagsOnlyAccumulate ==
    [][IF cfg.color \in DOMAIN flags
       THEN /\ cfg.color \in DOMAIN flags'
            /\ flags'[cfg.color] >= flags[cfg.color]
            /\ \A b \in {1, 2, 4, 8} :
                   Bit(flags[cfg.color], b) => Bit(flags'[cfg.color], b)
       ELSE \/ flags' = flags
            \/ /\ pc = "flag_reset"
               /\ z = EmptyDict
               /\ flags'[cfg.color] = 0]_vars

C4_Witness ==
    pc = "done" /\ flags[cfg.color] = 15

\* C5: when fit_z returns, the membership of every source is the one of the
\* final window at the converged redshift: bluer and redder from final_rs_color,
\* brighter from final_rs_mag[0] and dimmer from final_rs_mag[1].
C5_FinalMembershipUsesFinalWindow ==
    pc \in {"location_check", "interactive", "done"}
        => sources = set_rs_membership(sources, z[cfg.color].value,
                                       cfg.final_rs_color[1],
                                       cfg.final_rs_color[2],
                                       cfg.final_rs_mag[1], cfg.final_rs_mag[2])

\* the reduced chi-squared (over a fixed denominator) of the fitted sources
FitChi(redshift) ==
    ChiSum(sources, to_fit(sources), ErrUnit(sources, to_fit(sources)), redshift)

\* C6: the redshift _chi_square_w_error stores is a table redshift of minimal
\* reduced chi-squared, and the lowest of those that share the minimum.
C6_LowestMinimumSelected ==
    (JustRan("_chi_square_w_error") /\ to_fit(sources) # {})
        => LET best_z == z[cfg.color].value
           IN  /\ best_z \in models
               /\ \A r \in models :
                     /\ FitChi(best_z) <= FitChi(r)
                     /\ FitChi(r) = FitChi(best_z) => best_z <= r

C6_Witness ==
    /\ JustRan("_chi_square_w_error")
    /\ to_fit(sources) # {}
    /\ \E r \in models :
          r > z[cfg.color].value /\ FitChi(r) = FitChi(z[cfg.color].value)

Delta(k) == chi_sq_values[k + 1] - chi_sq_values[best_chi_index + 1]

\* C7: both error scans start at the minimizing index and stop at the first
\* index in their direction whose chi-squared is 1.0 or more above the minimum,
\* every index passed on the way being less than 1.0 above it; for
\* [5,3,1,0,1,3,5] they stop at 4 and 2; the errors returned are the redshift
\* differences between the stopping indices and the best index.
C7_ScanStopsAtFirstRise ==
    pc = "chi_returned" =>
        LET n == Len(chi_sq_values)
            up == {k \in best_chi_index..(n - 1) : Delta(k) >= 1}
            down == {k \in 0..best_chi_index : Delta(k) >= 1}
        IN  /\ \A k \in best_chi_index..(high_idx - 1) : Delta(k) < 1
            /\ \A k \in (low_idx + 1)..best_chi_index : Delta(k) < 1
            /\ up # {} => high_idx = Min(up)
            /\ down # {} => low_idx = Max(down)
            /\ chi_sq_values = <<5, 3, 1, 0, 1, 3, 5>>
                  => high_idx = 4 /\ low_idx = 2
            /\ result.value = redshifts[best_chi_index + 1]
            /\ result.upper_error =
                  redshifts[high_idx + 1] - redshifts[best_chi_index + 1]
            /\ result.lower_error =
                  redshifts[best_chi_index + 1] - redshifts[low_idx + 1]

C7_Witness ==
    /\ pc = "chi_returned"
    /\ chi_sq_values = <<5, 3, 1, 0, 1, 3, 5>>
    /\ high_idx = 4
    /\ low_idx = 2
    /\ result = AsymmetricData(3, 1, 1)

\* C8: during both scans 0 <= low_idx <= best index <= high_idx <= n-1, also
\* when the chi-squared never rises by 1.0 or the minimum is at an end of the
\* table; the errors returned are never negative.
C8_ScanStaysInsideTable ==
    /\ pc \in {"scan_high", "scan_low", "chi_return", "chi_returned"}
          => /\ 0 <= best_chi_index
             /\ best_chi_index <= high_idx
             /\ high_idx <= Len(chi_sq_values) - 1
    /\ pc \in {"scan_low", "chi_return", "chi_returned"}
          => 0 <= low_idx /\ low_idx <= best_chi_index
    /\ pc = "chi_returned"
          => result.upper_error >= 0 /\ result.lower_error >= 0

C8_Witness ==
    /\ pc = "chi_returned"
    /\ Len(chi_sq_values) >= 3
    /\ best_chi_index = 0
    /\ low_idx = 0
    /\ high_idx = Len(chi_sq_values) - 1
    /\ Delta(high_idx) < 1

\* every membership state the given sources could have been left in
Memberships(srcs) ==
    {[i \in 1..Len(srcs) |-> [srcs[i] EXCEPT !.RS_member = m[i]]] :
        m \in [1..Len(srcs) -> BOOLEAN]}

Overwrites(redshift, bluer, redder, brighter, dimmer) ==
    /\ set_rs_membership(sources, redshift, bluer, redder, brighter, dimmer)
          = sources
    /\ \A prior \in Memberships(sources) :
          set_rs_membership(prior, redshift, bluer, redder, brighter, dimmer)
              = sources

\* C9: after a call of _set_rs_membership a second call with the same
\* arguments changes nothing, and the membership it left is the one the call
\* produces from any prior membership of the same sources.
C9_MembershipIdempotentOverwrite ==
    /\ JustRan("_set_rs_membership") /\ pc = "chi_square"
          => Overwrites(z[cfg.color].value, cfg.bluer_color_cut[iter],
                        cfg.redder_color_cut[iter],
                        cfg.brighter_mag_cut, cfg.dimmer_mag_cut)
    /\ JustRan("_set_rs_membership") /\ pc = "location_check"
          => Overwrites(z[cfg.color].value, cfg.final_rs_color[1],
                        cfg.final_rs_color[2],
                        final_mag_cuts(cfg)[1], final_mag_cuts(cfg)[2])

C9_Witness ==
    /\ JustRan("_set_rs_membership")
    /\ pc = "location_check"
    /\ \E i \in 1..Len(sources) :
          /\ sources[i].RS_member
          /\ ~sources[i].near_center
          /\ ~CleanBlue(sources, z[cfg.color].value, cfg)[i].RS_member

\* index i holds a maximum by the neighbor rule (indices from 0)
PeakAt(nb, i) ==
    /\ 3 <= i /\ i <= Len(nb) - 4
    /\ \A d \in {-3, -2, 2, 3} : nb[i + 1] > nb[i + d + 1]
    /\ \A d \in {-1, 1} : nb[i + 1] >= nb[i + d + 1]

\* the indices the scan counts: those it visits that hold a maximum; it
\* visits an index unless one of the two before it was counted
Counted(nb) ==
    CHOOSE C \in SUBSET (3..(Len(nb) - 4)) :
        \A i \in 3..(Len(nb) - 4) :
            i \in C <=> (PeakAt(nb, i) /\ (i - 1) \notin C /\ (i - 2) \notin C)

\* C10: _double_red_sequence adds 2 to the flag exactly when the scan from
\* index 3 to n-4 (3 ahead after a maximum, 1 otherwise) counts two or more
\* maxima; a single peak, or fewer than 7 entries, leaves the flag unchanged.
C10_DoubleRedSequenceFlag ==
    pc = "double_red_sequence_returned" =>
        /\ flags[Color] = (IF Cardinality(Counted(nearby)) >= 2 THEN 2 ELSE 0)
        /\ Len(nearby) < 7 => flags[Color] = 0

C10_Witness ==
    /\ pc = "double_red_sequence_returned"
    /\ flags[Color] = 2
    /\ Cardinality(Counted(nearby)) = 2

\* the number of sources of srcs that satisfy P
CountWhere(srcs, P(_)) == Cardinality({i \in 1..Len(srcs) : P(srcs[i])})

IsNear(s) == s.near_center
IsFar(s) == ~s.near_center
IsNearMember(s) == s.near_center /\ s.RS_member
IsFarMember(s) == ~s.near_center /\ s.RS_member

\* the near-center member fraction is below 1.75 times the far one
\* (a/b < 1.75 * c/d with b, d > 0, cross-multiplied)
NearFractionTooLow(srcs) ==
    CountWhere(srcs, IsNearMember) * CountWhere(srcs, IsFar) * 100
        < CountWhere(srcs, IsFarMember) * CountWhere(srcs, IsNear) * 175

\* C11: _location_check adds 1 to the flag exactly when the near-center
\* population is empty, or the far population is empty, or the near-center
\* member fraction is less than 1.75 times the far member fraction; otherwise
\* the flag is unchanged; the call never raises.
C11_LocationCheckFlag ==
    [][pc = "location_check" =>
          /\ pc' # "raised"
          /\ flags'[cfg.color] = flags[cfg.color] +
                (IF \/ CountWhere(sources, IsNear) = 0
                    \/ CountWhere(sources, IsFar) = 0
                    \/ NearFractionTooLow(sources)
                 THEN 1 ELSE 0)]_vars

\* the source lies in the window the cuts draw around the model of redshift
InWindow(s, redshift, bluer, redder, brighter, dimmer) ==
    /\ rs_color(redshift, s.mag) - bluer <= s.color
    /\ s.color <= rs_color(redshift, s.mag) + redder
    /\ mag_point(redshift) - brighter <= s.mag
    /\ s.mag <= mag_point(redshift) + dimmer

\* near_center sources inside the last scheduled cuts moved by shift to the red
ShiftedCount(srcs, redshift, c, shift) ==
    Cardinality({i \in 1..Len(srcs) :
        /\ srcs[i].near_center
        /\ InWindow(srcs[i], redshift, Last(c.bluer_color_cut) - shift,
                    Last(c.redder_color_cut) + shift,
                    c.brighter_mag_cut, c.dimmer_mag_cut)})

CleanCalled == pc = "clean_rs_check" /\ HasAttr(z[cfg.color], "value")

C17_CleanCheckLeavesBluePass ==
    [][CleanCalled =>
          /\ z' = z
          /\ Len(sources') = Len(sources)
          /\ \A i \in 1..Len(sources) :
                sources'[i] =
                  [sources[i] EXCEPT !.RS_member =
                      InWindow(sources[i], z[cfg.color].value,
                               Last(cfg.bluer_color_cut) + 3,
                               Last(cfg.redder_color_cut) - 3,
                               cfg.brighter_mag_cut, cfg.dimmer_mag_cut)]]_vars

C17_Witness ==
    /\ JustRan("_clean_rs_check")
    /\ \E i \in 1..Len(sources) :
          /\ ~sources[i].RS_member
          /\ InWindow(sources[i], z[cfg.color].value,
                      Last(cfg.bluer_color_cut), Last(cfg.redder_color_cut),
                      cfg.brighter_mag_cut, cfg.dimmer_mag_cut)
    /\ \E j \in 1..Len(sources) :
          /\ sources[j].RS_member
          /\ ~InWindow(sources[j], z[cfg.color].value,
                       Last(cfg.bluer_color_cut), Last(cfg.redder_color_cut),
                       cfg.brighter_mag_cut, cfg.dimmer_mag_cut)

CoarseGrid == {r \in 0..ZMax : r % 5 = 0}

\* near_center sources strictly inside the initial windows of redshift r
NearbyCount(srcs, r, c) ==
    Cardinality({i \in 1..Len(srcs) :
        /\ srcs[i].near_center
        /\ mag_point(r) - c.initial_mag[1] < srcs[i].mag
        /\ srcs[i].mag < mag_point(r) + c.initial_mag[2]
        /\ rs_color(r, srcs[i].mag) - c.initial_color[1] < srcs[i].color
        /\ srcs[i].color < rs_color(r, srcs[i].mag) + c.initial_color[2]})

\* C13: the value _initial_z returns is a coarse-grid redshift of maximal
\* nearby count, the lowest of those sharing the maximum, and it is the value
\* returned for the near_center sources alone.
C13_InitialZMaximizesNearby ==
    JustRan("_initial_z") =>
        LET best_z == z[cfg.color].value
        IN  /\ best_z \in CoarseGrid
            /\ \A r \in CoarseGrid :
                  /\ NearbyCount(sources, r, cfg)
                        <= NearbyCount(sources, best_z, cfg)
                  /\ NearbyCount(sources, r, cfg)
                        = NearbyCount(sources, best_z, cfg) => best_z <= r
            /\ best_z = initial_z(SelectSeq(sources, IsNear), cfg).value

C13_Witness ==
    /\ JustRan("_initial_z")
    /\ NearbyCount(sources, z[cfg.color].value, cfg) >= 1
    /\ \E r \in CoarseGrid :
          /\ r > z[cfg.color].value
          /\ NearbyCount(sources, r, cfg)
                = NearbyCount(sources, z[cfg.color].value, cfg)

\* C14: the errors _initial_z returns span the coarse grid: value + upper
\* error is its highest redshift and value - lower error its lowest.
C14_InitialZErrorsSpanGrid ==
    JustRan("_initial_z") =>
        /\ z[cfg.color].value + z[cfg.color].upper_error = Max(CoarseGrid)
        /\ z[cfg.color].value - z[cfg.color].lower_error = Min(CoarseGrid)

C14_Witness ==
    /\ JustRan("_initial_z")
    /\ z[cfg.color] = AsymmetricData(15, 35, 15)

\* the catalog gave every source a distance
DistanceSupplied(srcs) == \A i \in 1..Len(srcs) : srcs[i].dist # None

\* C15: for sources that carry a supplied distance, _location_cut completes
\* without raising, sets near_center to (distance < radius * 60) and leaves
\* the distance as supplied, whatever the positions are, also when the
\* catalog has the distance only and no ra/dec.
C15_SuppliedDistanceDecides ==
    [][(pc = "location_cut" /\ DistanceSupplied(sources)) =>
          /\ pc' # "raised"
          /\ Len(sources') = Len(sources)
          /\ \A i \in 1..Len(sources) :
                /\ sources'[i].dist = sources[i].dist
                /\ sources'[i].near_center
                      = (sources[i].dist[1] * 10 < 15 * 60)]_vars

\* twice the offset of source i from the midpoint of the bounding box of all
\* sources, squared and summed over both axes (units of 1/144 degree)
CenterOffsetSq(srcs, i) ==
    LET ras == {srcs[j].ra[1] : j \in 1..Len(srcs)}
        decs == {srcs[j].dec[1] : j \in 1..Len(srcs)}
    IN  (2 * srcs[i].ra[1] - Max(ras) - Min(ras)) ^ 2
          + (2 * srcs[i].dec[1] - Max(decs) - Min(decs)) ^ 2

\* C16: for sources without a supplied distance, after every call of
\* _location_cut a source is near_center exactly when its distance from the
\* midpoint of the bounding box of all sources is strictly below radius * 60
\* arcsec, for the first radius and for any later one.  (An offset of o units
\* is 25 * o arcsec; the radius is in tenths of an arcminute.)
C16_NearCenterStrictlyInside ==
    \A i \in 1..Len(sources) :
        (pc = "location_cut" /\ calls # <<>>) =>
            LET radius == calls[Len(calls)].arg
            IN  /\ sources[i].near_center
                      = (CenterOffsetSq(sources, i) * 250 * 250
                            < (radius * 60) * (radius * 60))
                /\ sources[i].dist # None
                /\ sources[i].dist[1] * sources[i].dist[1]
                      = CenterOffsetSq(sources, i) * 25 * 25

C16_Witness ==
    /\ pc = "location_cut"
    /\ Len(calls) = 2
    /\ calls[1].arg # calls[2].arg
    /\ \E i \in 1..Len(sources) :
          /\ ~sources[i].near_center
          /\ sources[i].dist[1] * 10 = calls[2].arg * 60
    /\ \E j \in 1..Len(sources) : sources[j].near_center

\* C18: from the reset on, the flag of the color key lies in 0..15, and every
\* step of fit_z adds to it nothing or one of 1, 2, 4, 8 that it does not
\* hold yet, so no amount is added twice in a run and the sum of the amounts
\* is their bitwise OR.
C18_FlagIsBitSet ==
    [][cfg.color \in DOMAIN flags' =>
          LET old == IF cfg.color \in DOMAIN flags THEN flags[cfg.color] ELSE 0
              added == flags'[cfg.color] - old
          IN  /\ flags'[cfg.color] \in 0..15
              /\ added \in {0, 1, 2, 4, 8}
              /\ added # 0 => ~Bit(old, added)]_vars

C18_Witness ==
    /\ pc = "done"
    /\ flags[cfg.color] = 13
    /\ Len(sources) = 1

====
